---------------------------- MODULE Spec2Model ----------------------------
(* A model of the openrelik e-mail parser worker:                           *)
(*   src/src/email_parsing_utils.py  (parsing and attachment extraction)   *)
(*   src/src/tasks.py                (the task `command`)                  *)
(*                                                                          *)
(* Python strings are sequences of one-character strings, bytes are         *)
(* sequences of integers 0..255, an optional value (a header that may be    *)
(* None) is a record [none, s].                                             *)
EXTENDS Integers, Sequences, FiniteSets, TLC

VARIABLES
    unsanitized,    \* the string handed to santitize_filename
    sanitized,      \* what santitize_filename returned, call after call
    message,        \* the message handed to get_message_body
    body,           \* what get_message_body returned (or raised)
    file,           \* the input file handed to a parser
    oracle,         \* the output directory's answers: [fail, op]
    ret,            \* what the parser returned (or raised)
    input_files,    \* command: the input listing
    idx,            \* command: index of the input file the loop is at
    output_files,   \* command: the output list built so far
    csv_files,      \* command: the CSV files written, [path, header, rows]
    outdir,         \* the calls made to create_output_file, in order
    error,          \* command: the exception that left it, "" when none
    pc              \* position of the operation under check

vars == <<unsanitized, sanitized, message, body, file, oracle, ret,
          input_files, idx, output_files,
          csv_files, outdir, error, pc>>

-----------------------------------------------------------------------------
(* Optional values and Python truthiness                                    *)

None == [none |-> TRUE, s |-> <<>>]

Some(s) == [none |-> FALSE, s |-> s]

\* bool(x) of a str-or-None value: None and "" are both falsy
Truthy(o) == ~o.none /\ o.s # <<>>

-----------------------------------------------------------------------------
(* The message tree                                                         *)

\* A part: multipart (is_multipart()), main/sub (get_content_type() is
\* main/sub, lower-cased by the library), filename (get_filename()),
\* disposition (get("Content-Disposition")), charset
\* (get_content_charset()), payload (get_payload(decode=True): the bytes
\* after the transfer encoding is undone), parts (the sub-parts of a
\* container).
Leaf(main, sub, filename, disposition, charset, payload) ==
    [multipart |-> FALSE, main |-> main, sub |-> sub, filename |-> filename,
     disposition |-> disposition, charset |-> charset, payload |-> payload,
     parts |-> <<>>]

Container(main, sub, filename, disposition, parts) ==
    [multipart |-> TRUE, main |-> main, sub |-> sub,
     filename |-> filename, disposition |-> disposition, charset |-> None,
     payload |-> <<>>, parts |-> parts]

RECURSIVE Walk(_)
RECURSIVE WalkAll(_)
\* email.message.Message.walk(): the part itself, then each sub-part's walk
Walk(part) ==
    <<part>> \o (IF part.multipart THEN WalkAll(part.parts) ELSE <<>>)

WalkAll(parts) ==
    IF parts = <<>> THEN <<>>
    ELSE Walk(Head(parts)) \o WalkAll(Tail(parts))

-----------------------------------------------------------------------------
(* bytes.decode(charset, errors="replace")                                  *)

\* the characters the model's payload bytes decode to
Chr(n) ==
    CASE n = 72 -> "H"
      [] n = 105 -> "i"
      [] n = 60 -> "<"
      [] n = 208 -> "U+00D0"
      [] n = 159 -> "U+009F"
      [] n = 1055 -> "U+041F"
      [] OTHER -> "U+FFFD"

RECURSIVE DecodeUtf8(_)
\* UTF-8 with errors="replace": ASCII bytes as they are, a two-byte lead
\* followed by a continuation byte as one character, any other byte
\* replaced by U+FFFD
DecodeUtf8(bytes) ==
    IF bytes = <<>> THEN <<>>
    ELSE LET b == Head(bytes) IN
         IF b < 128 THEN <<Chr(b)>> \o DecodeUtf8(Tail(bytes))
         ELSE IF /\ b >= 194 /\ b <= 223 /\ Len(bytes) >= 2
                 /\ bytes[2] >= 128 /\ bytes[2] <= 191
              THEN <<Chr((b - 192) * 64 + (bytes[2] - 128))>>
                       \o DecodeUtf8(Tail(Tail(bytes)))
              ELSE <<Chr(65533)>> \o DecodeUtf8(Tail(bytes))

\* latin-1: every byte is the character of the same code point
DecodeLatin1(bytes) == [i \in 1..Len(bytes) |-> Chr(bytes[i])]

S_utf8 == <<"u", "t", "f", "-", "8">>

S_latin1 == <<"l", "a", "t", "i", "n", "-", "1">>

Returned(v) == [raised |-> FALSE, exc |-> "", value |-> v]

Raised(e) == [raised |-> TRUE, exc |-> e, value |-> <<>>]

\* payload.decode(charset or "utf-8", errors="replace"): the codec is looked
\* up first, and an unknown codec name raises LookupError
DecodePayload(part) ==
    LET charset == IF Truthy(part.charset) THEN part.charset.s ELSE S_utf8
    IN  CASE charset = S_utf8 -> Returned(DecodeUtf8(part.payload))
          [] charset = S_latin1 -> Returned(DecodeLatin1(part.payload))
          [] OTHER -> Raised("LookupError")

-----------------------------------------------------------------------------
(* get_message_body                                                         *)

RECURSIVE FirstTextPlain(_)
\* the loop `for part in message.walk(): if ... == "text/plain": return ...`
\* and the `return ""` the loop falls through to
FirstTextPlain(parts) ==
    IF parts = <<>> THEN Returned(<<>>)
    ELSE IF Head(parts).main = "text" /\ Head(parts).sub = "plain"
         THEN DecodePayload(Head(parts))
         ELSE FirstTextPlain(Tail(parts))

\* a body extractor that looks at the message and its direct sub-parts only
get_message_body_toplevel(msg) ==
    IF msg.multipart THEN FirstTextPlain(<<msg>> \o msg.parts)
    ELSE DecodePayload(msg)

get_message_body(msg) ==
    IF msg.multipart THEN FirstTextPlain(Walk(msg))
    ELSE DecodePayload(msg)

-----------------------------------------------------------------------------
(* Python string operations used by the parser                              *)

UpperCase ==
    <<"A", "B", "C", "D", "E", "F", "G", "H", "I", "J", "K", "L", "M",
      "N", "O", "P", "Q", "R", "S", "T", "U", "V", "W", "X", "Y", "Z">>

LowerCase ==
    <<"a", "b", "c", "d", "e", "f", "g", "h", "i", "j", "k", "l", "m",
      "n", "o", "p", "q", "r", "s", "t", "u", "v", "w", "x", "y", "z">>

LowerChar(c) ==
    IF \E i \in DOMAIN UpperCase : UpperCase[i] = c
    THEN LowerCase[CHOOSE i \in DOMAIN UpperCase : UpperCase[i] = c]
    ELSE c

\* str.lower()
Lower(s) == [i \in 1..Len(s) |-> LowerChar(s[i])]

Whitespace == {" ", "\t", "\n", "\r"}

RECURSIVE LStrip(_)
LStrip(s) ==
    IF s # <<>> /\ Head(s) \in Whitespace THEN LStrip(Tail(s)) ELSE s

RECURSIVE RStrip(_)
RStrip(s) ==
    IF s # <<>> /\ s[Len(s)] \in Whitespace
    THEN RStrip(SubSeq(s, 1, Len(s) - 1))
    ELSE s

\* str.strip()
Strip(s) == RStrip(LStrip(s))

\* str.startswith(prefix)
StartsWith(s, prefix) ==
    /\ Len(s) >= Len(prefix)
    /\ SubSeq(s, 1, Len(prefix)) = prefix

\* s[:n]
Take(s, n) == SubSeq(s, 1, IF Len(s) < n THEN Len(s) ELSE n)

\* the character class [<>:"/\\|?*] of santitize_filename
InvalidChars == {"<", ">", ":", "\"", "/", "\\", "|", "?", "*"}

\* a character class written with a single backslash, [<>:"/\|?*], which
\* leaves the backslash out of the class
santitize_filename_keeps_backslash(filename) ==
    [i \in 1..Len(filename) |->
        IF filename[i] \in InvalidChars \ {"\\"} THEN "_" ELSE filename[i]]

\* re.sub(r'[<>:"/\\|?*]', '_', filename)
santitize_filename(filename) ==
    [i \in 1..Len(filename) |->
        IF filename[i] \in InvalidChars THEN "_" ELSE filename[i]]

\* str.rfind of one character: the last index holding c, 0 when there is none
RFind(s, c) ==
    IF \E i \in 1..Len(s) : s[i] = c
    THEN CHOOSE i \in 1..Len(s) :
            s[i] = c /\ \A j \in (i + 1)..Len(s) : s[j] # c
    ELSE 0

\* a split at the last dot wherever it stands
splitext_at_last_dot(p) ==
    LET dotIndex == RFind(p, ".")
    IN  IF dotIndex > 0
        THEN <<SubSeq(p, 1, dotIndex - 1), SubSeq(p, dotIndex, Len(p))>>
        ELSE <<p, <<>>>>

\* os.path.splitext (posixpath): the extension starts at the last dot of the
\* last path component, unless only dots precede it in that component
splitext(p) ==
    LET sepIndex == RFind(p, "/")
        dotIndex == RFind(p, ".")
    IN  IF /\ dotIndex > sepIndex
           /\ \E k \in (sepIndex + 1)..(dotIndex - 1) : p[k] # "."
        THEN <<SubSeq(p, 1, dotIndex - 1), SubSeq(p, dotIndex, Len(p))>>
        ELSE <<p, <<>>>>

S_attachment == <<"a", "t", "t", "a", "c", "h", "m", "e", "n", "t">>

S_inline == <<"i", "n", "l", "i", "n", "e">>

S_unknown_message == <<"u", "n", "k", "n", "o", "w", "n", "_",
                       "m", "e", "s", "s", "a", "g", "e", "_">>

-----------------------------------------------------------------------------
(* The output directory: openrelik_worker_common.file_utils                 *)

\* io is the environment's answer to the n-th create_output_file call of a
\* run: io.fail is the set of calls that fail, io.op whether such a call
\* fails in create_output_file itself or in the write that follows it.
\* The log of the calls records, beside what was asked for, which part of
\* the walk asked (part_no, 0 for a CSV file) and how the call ended.
Request(display_name, extension, data_type, part_no, outcome) ==
    [display_name |-> display_name, extension |-> extension,
     data_type |-> data_type, part_no |-> part_no, outcome |-> outcome]

\* OutputFile.to_dict(): the requested names and the path the collaborator
\* chose, unique per call
Descriptor(display_name, extension, data_type, n) ==
    [display_name |-> display_name, extension |-> extension,
     data_type |-> data_type, path |-> n]

Outcome(io, n) ==
    IF n \in io.fail
    THEN (IF io.op = "create" THEN "create_failed" ELSE "write_failed")
    ELSE "ok"

-----------------------------------------------------------------------------
(* extract_message_attachments                                              *)

\* a message: the root part, the Message-ID header, the Subject header, the
\* class of the object, and digits: str(abs(hash(str(message)))), which the
\* interpreter fixes per process
Message(cls, message_id, subject, digits, root) ==
    [cls |-> cls, message_id |-> message_id, subject |-> subject,
     digits |-> digits, root |-> root]

\* message.get(name, "")
GetOr(header, default) == IF header.none THEN default ELSE header.s

MessageId(msg) ==
    LET message_id == santitize_filename(GetOr(msg.message_id, <<>>))
    IN  IF message_id = <<>>
        THEN S_unknown_message \o Take(msg.digits, 8)
        ELSE message_id

\* a test that forgets the content type of parts without a disposition
GrabPart_any_maintype(part) ==
    LET disposition == part.disposition
    IN  \/ /\ Truthy(disposition)
           /\ \/ StartsWith(Lower(Strip(disposition.s)), S_attachment)
              \/ StartsWith(Lower(Strip(disposition.s)), S_inline)
        \/ /\ ~Truthy(disposition)
           /\ Truthy(part.filename)

\* the test of lines 197-198 on a leaf part that has a filename
GrabPart(part) ==
    LET disposition == part.disposition
        maintype == part.main
    IN  \/ /\ Truthy(disposition)
           /\ \/ StartsWith(Lower(Strip(disposition.s)), S_attachment)
              \/ StartsWith(Lower(Strip(disposition.s)), S_inline)
        \/ /\ ~Truthy(disposition)
           /\ maintype # "text"
           /\ Truthy(part.filename)

\* a handler that, when one part fails, forgets the parts saved before it
SavePart_forgets(part, part_no, message_id, io, base_n, st) ==
    LET filename == part.filename.s
        base == splitext(filename)[1]
        ext == splitext(filename)[2]
        processed_ext == SubSeq(ext, 2, Len(ext))
        attachment_file_display_name == base \o <<".">> \o message_id
        n == base_n + Len(st.outdir) + 1
        outcome == Outcome(io, n)
    IN  [extracted_files |->
            IF outcome = "ok"
            THEN Append(st.extracted_files,
                        Descriptor(attachment_file_display_name,
                                   processed_ext, processed_ext, n))
            ELSE <<>>,
         outdir |->
            Append(st.outdir,
                   Request(attachment_file_display_name, processed_ext,
                           processed_ext, part_no, outcome))]

\* lines 200-220: name the output file, ask for it, write the payload and
\* record the descriptor; an exception raised by any of the three steps is
\* caught and logged, and the descriptor is not recorded
SavePart(part, part_no, message_id, io, base_n, st) ==
    LET filename == part.filename.s
        base == splitext(filename)[1]
        ext == splitext(filename)[2]
        processed_ext == SubSeq(ext, 2, Len(ext))
        attachment_file_display_name == base \o <<".">> \o message_id
        n == base_n + Len(st.outdir) + 1
        outcome == Outcome(io, n)
    IN  [extracted_files |->
            IF outcome = "ok"
            THEN Append(st.extracted_files,
                        Descriptor(attachment_file_display_name,
                                   processed_ext, processed_ext, n))
            ELSE st.extracted_files,
         outdir |->
            Append(st.outdir,
                   Request(attachment_file_display_name, processed_ext,
                           processed_ext, part_no, outcome))]

RECURSIVE ExtractLoop(_, _, _, _, _, _)
\* the loop over message.walk(), at the part_no-th part of the walk; st is
\* [extracted_files, outdir]
ExtractLoop(parts, part_no, message_id, io, base_n, st) ==
    IF parts = <<>> THEN st
    ELSE
      LET part == Head(parts)
          st2 == IF part.multipart THEN st
                 ELSE IF ~Truthy(part.filename) THEN st
                 ELSE IF ~GrabPart(part) THEN st
                 ELSE SavePart(part, part_no, message_id, io, base_n, st)
      IN  ExtractLoop(Tail(parts), part_no + 1, message_id, io, base_n, st2)

\* returns [extracted_files, outdir]: the descriptors and the calls made to
\* create_output_file; base_n calls were made before this one
extract_message_attachments(msg, io, base_n) ==
    IF msg.cls \in {"EmailMessage", "mboxMessage"}
    THEN ExtractLoop(Walk(msg.root), 1, MessageId(msg), io, base_n,
                     [extracted_files |-> <<>>, outdir |-> <<>>])
    ELSE [extracted_files |-> <<>>, outdir |-> <<>>]

-----------------------------------------------------------------------------
(* extract_message_metadata                                                 *)

\* The record of one message, keyed by column name.  The columns
\* Timestamp, To, From, Bcc, Cc, Date and User-Agent are header lookups that
\* cannot raise and that no operation below reads; the record keeps the
\* others.  A constant string is kept whole, as one token.
extract_message_metadata(attachments, msg) ==
    LET b == get_message_body(msg.root)
    IN  IF b.raised THEN Raised(b.exc)
        ELSE Returned(
               ("Timestamp_desc" :> <<"Email received">>)
               @@ ("Message" :> <<"Email message">>)
               @@ ("Subject" :> msg.subject)
               @@ ("Message-ID" :> GetOr(msg.message_id, <<>>))
               @@ ("Content-Type" :> <<msg.root.main, "/", msg.root.sub>>)
               @@ ("Attachments" :> attachments)
               @@ ("Body" :> b.value))

\* [part.get_filename() for part in msg.walk() if part.get_filename()]
Filenames(parts) ==
    LET named == SelectSeq(parts, LAMBDA part : Truthy(part.filename))
    IN  [i \in 1..Len(named) |-> named[i].filename.s]

-----------------------------------------------------------------------------
(* parse_eml_to_dict_and_extract_attachments                                *)

\* An input file: extension and display_name as the input listing gives
\* them, opens (open()/mailbox.mbox() succeeds and, for an EML file, the
\* bytes are valid UTF-8), messages (the messages the library parses out of
\* it: one for an EML file, any number for a mailbox).
File(extension, display_name, opens, messages) ==
    [extension |-> extension, display_name |-> display_name,
     opens |-> opens, messages |-> messages]

\* the value a parser hands back: raised/exc when an exception leaves it,
\* else the two returned values; outdir is the calls it made to
\* create_output_file
ParserResult(raised, exc, attachment_file_paths, metadata, calls) ==
    [raised |-> raised, exc |-> exc,
     attachment_file_paths |-> attachment_file_paths,
     metadata |-> metadata, outdir |-> calls]

parse_eml_to_dict_and_extract_attachments(f, io, base_n) ==
    IF ~f.opens
    THEN ParserResult(TRUE, "UnicodeDecodeError", <<>>, <<>>, <<>>)
    ELSE
      LET msg == f.messages[1]
          message_attachments == extract_message_attachments(msg, io, base_n)
          attachment_file_paths == <<>> \o message_attachments.extracted_files
          attachments == Filenames(Walk(msg.root))
          email_metadata == extract_message_metadata(attachments, msg)
      IN  IF email_metadata.raised
          THEN ParserResult(TRUE, email_metadata.exc, <<>>, <<>>,
                            message_attachments.outdir)
          ELSE ParserResult(FALSE, "", attachment_file_paths,
                            email_metadata.value, message_attachments.outdir)

-----------------------------------------------------------------------------
(* parse_mbox_to_dict_and_extract_attachments                               *)

RECURSIVE MboxPartLoop(_, _, _, _, _)
\* the inner loop `for part in message.walk()`: one call of
\* extract_message_attachments on the whole message for every part that has
\* a filename; st is [attachment_file_paths, outdir]
MboxPartLoop(parts, msg, io, base_n, st) ==
    IF parts = <<>> THEN st
    ELSE IF Truthy(Head(parts).filename)
         THEN LET message_content ==
                    extract_message_attachments(
                        msg, io, base_n + Len(st.outdir))
              IN  MboxPartLoop(Tail(parts), msg, io, base_n,
                     [attachment_file_paths |->
                         st.attachment_file_paths
                             \o message_content.extracted_files,
                      outdir |-> st.outdir \o message_content.outdir])
         ELSE MboxPartLoop(Tail(parts), msg, io, base_n, st)

RECURSIVE MboxLoop(_, _, _, _)
\* the loop `for message in mbox` inside the try; st is
\* [attachment_file_paths, messages_metadata, outdir].  An exception leaves
\* the loop for the handler of line 273, which only logs.
MboxLoop(messages, io, base_n, st) ==
    IF messages = <<>> THEN st
    ELSE
      LET msg == Head(messages)
          attachment_filenames == <<>>
          inner == MboxPartLoop(Walk(msg.root), msg, io,
                                base_n + Len(st.outdir),
                                [attachment_file_paths |-> <<>>,
                                 outdir |-> <<>>])
          metadata == extract_message_metadata(attachment_filenames, msg)
          outdir2 == st.outdir \o inner.outdir
      IN  IF metadata.raised
          THEN [attachment_file_paths |-> inner.attachment_file_paths,
                messages_metadata |-> st.messages_metadata,
                outdir |-> outdir2]
          ELSE MboxLoop(Tail(messages), io, base_n,
                  [attachment_file_paths |-> inner.attachment_file_paths,
                   messages_metadata |->
                       Append(st.messages_metadata, metadata.value),
                   outdir |-> outdir2])

parse_mbox_to_dict_and_extract_attachments(f, io, base_n) ==
    LET empty == [attachment_file_paths |-> <<>>,
                  messages_metadata |-> <<>>, outdir |-> <<>>]
        st == IF f.opens THEN MboxLoop(f.messages, io, base_n, empty)
              ELSE empty
    IN  ParserResult(FALSE, "", st.attachment_file_paths,
                     st.messages_metadata, st.outdir)

-----------------------------------------------------------------------------
(* Bounded inputs                                                           *)

\* sub-parts of one container in the messages given to get_message_body
MaxBodyParts == 2

SeqsUpTo(S, n) == UNION {[1..k -> S] : k \in 0..n}

S_unknown_8bit == <<"u", "n", "k", "n", "o", "w", "n", "-", "8", "b", "i", "t">>

S_a_t == <<"a", ".", "t">>

BodyPayloads == {<<72>>, <<208, 159>>, <<208, 72>>}

BodyCharsets == {None, Some(S_latin1), Some(S_unknown_8bit)}

HtmlLeaf == Leaf("text", "html", None, None, None, <<60>>)

BodyLeaves ==
    {Leaf("text", "plain", None, None, cs, pl) :
        cs \in BodyCharsets, pl \in BodyPayloads}
    \cup {HtmlLeaf,
          Leaf("text", "plain", Some(S_a_t), Some(S_attachment), None,
               <<105, 72>>)}

BodyNested ==
    {Container("multipart", "alternative", None, None, ps) :
        ps \in SeqsUpTo({Leaf("text", "plain", None, None, None, <<105>>),
                         HtmlLeaf}, MaxBodyParts) \ {<<>>}}

BodyMessages ==
    BodyLeaves
    \cup {Container("multipart", "mixed", None, None, ps) :
            ps \in SeqsUpTo(BodyLeaves \cup BodyNested, MaxBodyParts)}

\* values of the variables an operation does not use
Idle == <<>>

-----------------------------------------------------------------------------
(* SpecBody: get_message_body applied to every message of BodyMessages      *)

BodyInit ==
    /\ unsanitized = Idle /\ sanitized = Idle
    /\ message \in BodyMessages
    /\ body = Idle
    /\ pc = "start"
    /\ file = Idle /\ oracle = Idle /\ ret = Idle /\ input_files = Idle
    /\ idx = 0 /\ output_files = Idle /\ csv_files = Idle /\ outdir = Idle
    /\ error = ""

GetMessageBody ==
    /\ pc = "start"
    /\ body' = get_message_body(message)
    /\ pc' = "body_done"
    /\ UNCHANGED <<unsanitized, sanitized,
                   message, file, oracle, ret, input_files, idx, output_files,
                   csv_files, outdir, error>>

BodyNext == GetMessageBody

SpecBody == BodyInit /\ [][BodyNext]_vars

-----------------------------------------------------------------------------
(* Document order, stated on the tree: a part is named by the path of child *)
(* indices that leads to it from the root                                   *)

RECURSIVE PathsOf(_)
PathsOf(part) ==
    {<<>>} \cup
    (IF part.multipart
     THEN UNION {{<<i>> \o q : q \in PathsOf(part.parts[i])} :
                    i \in 1..Len(part.parts)}
     ELSE {})

RECURSIVE PartAt(_, _)
PartAt(part, path) ==
    IF path = <<>> THEN part
    ELSE PartAt(part.parts[Head(path)], Tail(path))

\* p comes before q in depth-first document order: p is an ancestor of q, or
\* at the first index where they differ p takes the earlier child
Before(p, q) ==
    \/ Len(p) < Len(q) /\ SubSeq(q, 1, Len(p)) = p
    \/ \E k \in 1..Len(p) :
          /\ k <= Len(q)
          /\ SubSeq(p, 1, k - 1) = SubSeq(q, 1, k - 1)
          /\ p[k] < q[k]

IsTextPlain(part) == part.main = "text" /\ part.sub = "plain"

TextPlainPaths(msg) == {q \in PathsOf(msg) : IsTextPlain(PartAt(msg, q))}

FirstTextPlainPath(msg) ==
    CHOOSE q \in TextPlainPaths(msg) :
        \A r \in TextPlainPaths(msg) \ {q} : Before(q, r)

-----------------------------------------------------------------------------
(* SpecEml: parse_eml_to_dict_and_extract_attachments applied to every file *)
(* of EmlFiles under every answer of the output directory                   *)

\* sub-parts of the root container in the messages of the EML files
MaxParts == 3

S_eml == <<"e", "m", "l">>

S_mbox == <<"m", "b", "o", "x">>

S_b_t == <<"b", ".", "t">>

S_id1 == <<"<", "1", "@", "x", ">">>

S_digits9 == <<"1", "2", "3", "4", "5", "6", "7", "8", "9">>

S_digits2 == <<"4", "2">>

ExtractDispositions ==
    {None, Some(<<>>), Some(S_attachment),
     Some(<<" ", "I", "n", "L", "i", "n", "e", ";", "\n">>),
     Some(<<"f", "o", "r", "m">>),
     Some(<<"x">> \o S_attachment)}

SubOf(main) == IF main = "text" THEN "plain" ELSE "png"

ExtractLeaves ==
    {Leaf(main, SubOf(main), fn, d, None, <<72>>) :
        main \in {"text", "image"}, fn \in {None, Some(S_a_t)},
        d \in ExtractDispositions}
    \cup {Leaf("image", "png", Some(S_b_t), Some(S_attachment), None, <<72>>),
          Leaf("text", "html", Some(S_b_t), None, None, <<60>>),
          Leaf("image", "png", Some(<<>>), Some(S_attachment), None, <<72>>),
          Leaf("text", "plain", None, None, Some(S_unknown_8bit), <<72>>)}

ExtractNested ==
    {Container("message", "rfc822", Some(S_a_t), Some(S_attachment),
               <<Leaf("text", "plain", None, None, None, <<105>>)>>),
     Container("multipart", "related", None, None,
               <<Leaf("image", "png", Some(S_a_t), Some(S_inline), None,
                      <<72>>)>>)}

\* the parts that are combined freely under one root
CoreParts ==
    {Leaf("text", "plain", None, None, None, <<72>>),
     Leaf("image", "png", Some(S_a_t), None, None, <<72>>),
     Leaf("text", "plain", Some(S_a_t), None, None, <<72>>),
     Leaf("image", "png", Some(S_b_t), Some(S_attachment), None, <<72>>),
     Leaf("text", "plain", Some(S_a_t),
          Some(<<" ", "I", "n", "L", "i", "n", "e", ";", "\n">>), None,
          <<72>>),
     Container("multipart", "related", None, None,
               <<Leaf("image", "png", Some(S_a_t), Some(S_inline), None,
                      <<72>>)>>)}

\* every leaf alone, every leaf or nested container as the only sub-part,
\* and the core parts in every arrangement of up to MaxParts
ExtractRoots ==
    ExtractLeaves
    \cup {Container("multipart", "mixed", None, None, <<p>>) :
            p \in ExtractLeaves \cup ExtractNested}
    \cup {Container("multipart", "mixed", None, None, ps) :
            ps \in SeqsUpTo(CoreParts, MaxParts)}

\* the Message-ID header and the digits of the hash that stands in for an
\* empty one
IdChoices ==
    {<<Some(S_id1), S_digits9>>, <<None, S_digits9>>,
     <<Some(<<>>), S_digits2>>}

EmlMessages ==
    {Message("EmailMessage", c[1], Some(<<"s">>), c[2], root) :
        c \in {<<Some(S_id1), S_digits9>>}, root \in ExtractRoots}
    \cup {Message("EmailMessage", c[1], Some(<<"s">>), c[2], root) :
            c \in IdChoices, root \in {r \in ExtractRoots : Len(r.parts) <= 1}}

EmlFiles ==
    {File(S_eml, <<"f">>, TRUE, <<m>>) : m \in EmlMessages}
    \cup {File(S_eml, <<"f">>, FALSE, <<>>)}

\* the answers of the output directory to at most n calls; with no failing
\* call the failing operation is immaterial
Oracles(n) ==
    {[fail |-> {}, op |-> "create"]}
    \cup {[fail |-> F, op |-> o] :
            F \in (SUBSET (1..n)) \ {{}}, o \in {"create", "write"}}

EmlInit ==
    /\ unsanitized = Idle /\ sanitized = Idle
    /\ file \in EmlFiles
    /\ oracle \in Oracles(MaxParts)
    /\ ret = Idle
    /\ outdir = <<>>
    /\ pc = "start"
    /\ message = Idle /\ body = Idle /\ input_files = Idle
    /\ idx = 0 /\ output_files = Idle /\ csv_files = Idle /\ error = ""

ParseEml ==
    /\ pc = "start"
    /\ LET r == parse_eml_to_dict_and_extract_attachments(file, oracle, 0)
       IN  /\ ret' = r
           /\ outdir' = outdir \o r.outdir
    /\ pc' = "eml_done"
    /\ UNCHANGED <<unsanitized, sanitized,
                   message, body, file, oracle, input_files, idx,
                   output_files, csv_files, error>>

EmlNext == ParseEml

SpecEml == EmlInit /\ [][EmlNext]_vars

-----------------------------------------------------------------------------
(* Claims on extract_message_attachments, read off a finished EML parse     *)

\* the message of the file under parse and its parts in document order
TheMessage == file.messages[1]

TheWalk == Walk(TheMessage.root)

\* part number k of the walk asked for an output file
Requested(k) == \E i \in 1..Len(outdir) : outdir[i].part_no = k

HasFilename(part) == ~part.filename.none /\ part.filename.s # <<>>

BeginsWithAttachmentOrInline(d) ==
    LET v == Lower(Strip(d))
    IN  \/ Len(v) >= 10 /\ SubSeq(v, 1, 10) = S_attachment
        \/ Len(v) >= 6 /\ SubSeq(v, 1, 6) = S_inline

\* the rule as the claim words it: no Content-Disposition header at all
QualifiesAsClaimed(part) ==
    /\ ~part.multipart
    /\ HasFilename(part)
    /\ \/ ~part.disposition.none
          /\ BeginsWithAttachmentOrInline(part.disposition.s)
       \/ part.disposition.none /\ part.main # "text"

\* the rule with an empty Content-Disposition header counted as none
Qualifies(part) ==
    /\ ~part.multipart
    /\ HasFilename(part)
    /\ \/ ~part.disposition.none
          /\ BeginsWithAttachmentOrInline(part.disposition.s)
       \/ /\ part.disposition.none \/ part.disposition.s = <<>>
          /\ part.main # "text"

\* C4 as stated: a part is extracted iff it is a leaf with a non-empty
\* filename and (its disposition begins with attachment/inline, or it has
\* no Content-Disposition and its maintype is not text)
C4_AsClaimed ==
    (pc = "eml_done" /\ file.opens) =>
        \A k \in 1..Len(TheWalk) :
            Requested(k) <=> QualifiesAsClaimed(TheWalk[k])

\* C4, amended: a part is extracted iff it is a leaf with a non-empty
\* filename and (its disposition, stripped and lower-cased, begins with
\* attachment or inline, or its Content-Disposition is absent or empty and
\* its maintype is not text); containers, leaves without a filename and
\* filename-bearing text parts without a disposition yield nothing; every
\* descriptor returned belongs to such a part
C4_ExtractIffQualifies ==
    (pc = "eml_done" /\ file.opens) =>
        /\ \A k \in 1..Len(TheWalk) :
              Requested(k) <=> Qualifies(TheWalk[k])
        /\ \A i \in 1..Len(ret.attachment_file_paths) :
              LET n == ret.attachment_file_paths[i].path
              IN  n \in 1..Len(outdir) /\ Qualifies(TheWalk[outdir[n].part_no])

\* a message where every case of the rule occurs among the parts: a part
\* with a padded mixed-case inline disposition and a nested container are in
\* it, one is extracted and one is not
C4_Witness ==
    /\ pc = "eml_done" /\ file.opens
    /\ TheMessage.root.multipart
    /\ Len(TheMessage.root.parts) = 2
    /\ LET p == TheMessage.root.parts[1]
           q == TheMessage.root.parts[2]
       IN  /\ p.main = "text" /\ HasFilename(p)
           /\ p.disposition =
                 Some(<<" ", "I", "n", "L", "i", "n", "e", ";", "\n">>)
           /\ q.main = "text" /\ HasFilename(q) /\ q.disposition.none
    /\ Requested(2) /\ ~Requested(3)
    /\ Len(ret.attachment_file_paths) = 1

\* the parts that qualify, as the increasing sequence of their numbers
RECURSIVE QualifyingFrom(_)
QualifyingFrom(k) ==
    IF k > Len(TheWalk) THEN <<>>
    ELSE (IF Qualifies(TheWalk[k]) THEN <<k>> ELSE <<>>)
             \o QualifyingFrom(k + 1)

\* those of them whose call to the output directory does not fail: the r-th
\* qualifying part makes the r-th call
SurvivingParts ==
    LET q == QualifyingFrom(1)
        keep == {r \in 1..Len(q) : r \notin oracle.fail}
    IN  [i \in 1..Cardinality(keep) |->
            q[CHOOSE r \in keep : Cardinality({x \in keep : x < r}) = i - 1]]

BodyRaises(msg) == get_message_body(msg.root).raised

\* C5: a failure to allocate or write one qualifying part drops only that
\* part: no exception leaves extract_message_attachments, the other
\* qualifying parts are extracted and listed in document order, and the
\* parser still returns the message's record
C5_FailureDropsOnlyThatPart ==
    (pc = "eml_done" /\ file.opens /\ ~BodyRaises(TheMessage)) =>
        /\ ~ret.raised
        /\ ret.metadata["Message-ID"] = GetOr(TheMessage.message_id, <<>>)
        /\ ret.metadata["Attachments"] = Filenames(TheWalk)
        /\ Len(ret.attachment_file_paths) = Len(SurvivingParts)
        /\ \A i \in 1..Len(SurvivingParts) :
              LET n == ret.attachment_file_paths[i].path
              IN  /\ n \in 1..Len(outdir)
                  /\ outdir[n].part_no = SurvivingParts[i]
                  /\ outdir[n].outcome = "ok"

\* the first of two qualifying parts fails, the second is still extracted
C5_Witness ==
    /\ pc = "eml_done" /\ file.opens
    /\ oracle.fail = {1}
    /\ Len(QualifyingFrom(1)) = 2
    /\ Len(outdir) = 2
    /\ outdir[1].outcome # "ok"
    /\ ~ret.raised
    /\ Len(ret.attachment_file_paths) = 1
    /\ ret.attachment_file_paths[1].path = 2

\* C8: any two extracted parts written into the same output directory are
\* requested with different (display name, extension) pairs
C8_DisplayNamesUnique ==
    \A i, j \in 1..Len(outdir) :
        (i # j /\ outdir[i].part_no # 0 /\ outdir[j].part_no # 0) =>
            <<outdir[i].display_name, outdir[i].extension>>
                # <<outdir[j].display_name, outdir[j].extension>>

-----------------------------------------------------------------------------
(* SpecMbox: parse_mbox_to_dict_and_extract_attachments applied to every    *)
(* mailbox of MboxFiles                                                     *)

\* messages of one mailbox
MaxMsgs == 3

\* sub-parts of the root container in the messages of a mailbox
MaxMboxParts == 2

S_id2 == <<"<", "2", "@", "x", ">">>

PlainBody == Leaf("text", "plain", None, None, None, <<72>>)

UnknownCharsetBody ==
    Leaf("text", "plain", None, None, Some(S_unknown_8bit), <<72>>)

AttachedA == Leaf("image", "png", Some(S_a_t), Some(S_attachment), None, <<72>>)

ImplicitB == Leaf("image", "png", Some(S_b_t), None, None, <<105>>)

MboxParts ==
    {AttachedA, ImplicitB,
     Leaf("text", "plain", Some(S_a_t), None, None, <<72>>)}

MboxMessages ==
    {Message("mboxMessage", Some(S_id1), Some(<<"s">>), S_digits9, root) :
        root \in {PlainBody, UnknownCharsetBody}
                 \cup {Container("multipart", "mixed", None, None, ps) :
                         ps \in SeqsUpTo(MboxParts, MaxMboxParts) \ {<<>>}}}
    \cup {Message("mboxMessage", c[1], Some(<<"s">>), c[2],
                  Container("multipart", "mixed", None, None,
                            <<AttachedA>>)) :
            c \in {<<Some(S_id2), S_digits9>>, <<None, S_digits9>>}}

MboxFiles ==
    {File(S_mbox, <<"f">>, TRUE, ms) : ms \in SeqsUpTo(MboxMessages, MaxMsgs)}
    \cup {File(S_mbox, <<"f">>, FALSE, <<>>)}

MboxInit ==
    /\ unsanitized = Idle /\ sanitized = Idle
    /\ file \in MboxFiles
    /\ oracle \in Oracles(1)
    /\ ret = Idle
    /\ outdir = <<>>
    /\ pc = "start"
    /\ message = Idle /\ body = Idle /\ input_files = Idle
    /\ idx = 0 /\ output_files = Idle /\ csv_files = Idle /\ error = ""

ParseMbox ==
    /\ pc = "start"
    /\ LET r == parse_mbox_to_dict_and_extract_attachments(file, oracle, 0)
       IN  /\ ret' = r
           /\ outdir' = outdir \o r.outdir
    /\ pc' = "mbox_done"
    /\ UNCHANGED <<unsanitized, sanitized,
                   message, body, file, oracle, input_files, idx,
                   output_files, csv_files, error>>

MboxNext == ParseMbox

SpecMbox == MboxInit /\ [][MboxNext]_vars

-----------------------------------------------------------------------------
(* Claims on the mailbox parser                                             *)

NoMessageRaises == \A i \in 1..Len(file.messages) : ~BodyRaises(file.messages[i])

\* C1: the descriptors returned are those accumulated across all messages
\* of the mailbox: every file extracted from any message is in the returned
\* list, and there is one record per message
C1_DescriptorsOfAllMessages ==
    (pc = "mbox_done" /\ file.opens /\ NoMessageRaises) =>
        /\ Len(ret.metadata) = Len(file.messages)
        /\ \A n \in 1..Len(outdir) :
              outdir[n].outcome = "ok" =>
                  \E i \in 1..Len(ret.attachment_file_paths) :
                      ret.attachment_file_paths[i].path = n

\* the messages that can be processed, in container order
RECURSIVE Processable(_)
Processable(messages) ==
    IF messages = <<>> THEN <<>>
    ELSE (IF BodyRaises(Head(messages)) THEN <<>> ELSE <<Head(messages)>>)
             \o Processable(Tail(messages))

\* C2: a message that raises is skipped and every later message is still
\* processed: the records are those of the messages that did not raise, in
\* container order
C2_LaterMessagesStillProcessed ==
    (pc = "mbox_done" /\ file.opens) =>
        LET good == Processable(file.messages)
        IN  /\ Len(ret.metadata) = Len(good)
            /\ \A i \in 1..Len(good) :
                  /\ ret.metadata[i]["Message-ID"]
                        = GetOr(good[i].message_id, <<>>)
                  /\ ret.metadata[i]["Content-Type"]
                        = <<good[i].root.main, "/", good[i].root.sub>>

\* the filenames of the leaf parts of a message, in document order
LeafFilenames(msg) ==
    Filenames(SelectSeq(Walk(msg.root), LAMBDA part : ~part.multipart))

\* C3: the Attachments field of every record of a mailbox is the list of
\* filenames of the leaf parts of that message that have a filename
C3_AttachmentsOfThisMessage ==
    (pc = "mbox_done" /\ file.opens /\ NoMessageRaises) =>
        /\ Len(ret.metadata) = Len(file.messages)
        /\ \A i \in 1..Len(ret.metadata) :
              ret.metadata[i]["Attachments"] = LeafFilenames(file.messages[i])

-----------------------------------------------------------------------------
(* write_dict_to_csv                                                        *)

\* the columns of csv_headers that the record keeps, in their order
csv_headers ==
    <<"Timestamp_desc", "Message", "Subject", "Message-ID", "Content-Type",
      "Attachments", "Body">>

RECURSIVE JoinQuoted(_)
JoinQuoted(names) ==
    IF names = <<>> THEN <<>>
    ELSE <<"'">> \o Head(names) \o <<"'">>
            \o (IF Tail(names) = <<>> THEN <<>> ELSE <<",", " ">>)
            \o JoinQuoted(Tail(names))

\* what csv.DictWriter writes for a value: "" for None, str() of a list,
\* the string itself
CsvCell(column, v) ==
    CASE column = "Attachments" -> <<"[">> \o JoinQuoted(v) \o <<"]">>
      [] column = "Subject" -> (IF v.none THEN <<>> ELSE v.s)
      [] OTHER -> v

CsvRow(headers, record) ==
    [i \in 1..Len(headers) |-> CsvCell(headers[i], record[headers[i]])]

\* a writer that loses the last record
write_dict_to_csv_short(message_dict, headers, path) ==
    [path |-> path, header |-> headers,
     rows |-> [i \in 1..(Len(message_dict) - 1) |->
                  CsvRow(headers, message_dict[i])]]

\* the file written: the header row, then one row per record in order
write_dict_to_csv(message_dict, headers, path) ==
    [path |-> path, header |-> headers,
     rows |-> [i \in 1..Len(message_dict) |->
                  CsvRow(headers, message_dict[i])]]

-----------------------------------------------------------------------------
(* SpecCommand: the task `command` run on every input listing               *)

\* input files of one run
MaxInputs == 3

SUPPORTED_EXTENSIONS == <<S_eml, S_mbox>>

S_csv == <<"c", "s", "v">>

InList(x, list) == \E i \in 1..Len(list) : list[i] = x

MboxMessage(message_id, root) ==
    Message("mboxMessage", message_id, Some(<<"s">>), S_digits9, root)

OneAttachment == Container("multipart", "mixed", None, None, <<AttachedA>>)

CommandFiles ==
    {File(S_eml, <<"e1">>, TRUE,
          <<Message("EmailMessage", Some(S_id1), Some(<<"s">>), S_digits9,
                    OneAttachment)>>),
     File(S_eml, <<"e2">>, FALSE, <<>>),
     File(S_eml, <<"e3">>, TRUE,
          <<Message("EmailMessage", Some(S_id1), Some(<<"s">>), S_digits9,
                    UnknownCharsetBody)>>),
     File(S_mbox, <<"m1">>, TRUE,
          <<MboxMessage(Some(S_id1), OneAttachment),
            MboxMessage(Some(S_id2), OneAttachment)>>),
     File(S_mbox, <<"m2">>, TRUE,
          <<MboxMessage(Some(S_id1), PlainBody),
            MboxMessage(Some(S_id2), UnknownCharsetBody),
            MboxMessage(Some(S_id2), PlainBody)>>),
     File(S_mbox, <<"m3">>, TRUE, <<>>),
     File(S_mbox, <<"m4">>, FALSE, <<>>),
     File(<<"t", "x", "t">>, <<"t1">>, TRUE, <<>>)}

CommandInit ==
    /\ unsanitized = Idle /\ sanitized = Idle
    /\ input_files \in SeqsUpTo(CommandFiles, MaxInputs)
    /\ oracle \in Oracles(1)
    /\ idx = 1
    /\ output_files = <<>>
    /\ csv_files = <<>>
    /\ outdir = <<>>
    /\ ret = <<>>
    /\ error = ""
    /\ pc = "loop"
    /\ message = Idle /\ body = Idle /\ file = Idle

\* lines 64-69: an input whose extension is not supported is passed over
CommandSkip ==
    /\ pc = "loop" /\ idx <= Len(input_files)
    /\ ~InList(Lower(input_files[idx].extension), SUPPORTED_EXTENSIONS)
    /\ idx' = idx + 1
    /\ UNCHANGED <<unsanitized, sanitized,
                   message, body, file, oracle, ret, input_files,
                   output_files, csv_files, outdir, error, pc>>

\* lines 71-109 for one supported input: the CSV output file is asked for
\* (call number n), the parser named by the extension is run (r is what it
\* hands back), the records are written to the CSV file, and the CSV
\* descriptor and then the attachment descriptors are added to
\* output_files.  An exception of create_output_file, of the parser or of
\* the write leaves command.
ProcessInput(input_file, n, r, message_dict) ==
    LET csv_request == Request(input_file.display_name, S_csv, S_csv, 0,
                               Outcome(oracle, n))
    IN  IF Outcome(oracle, n) = "create_failed"
        THEN /\ outdir' = Append(outdir, csv_request)
             /\ error' = "OSError"
             /\ pc' = "raised"
             /\ UNCHANGED <<ret, idx, output_files, csv_files>>
        ELSE /\ outdir' = Append(outdir, csv_request) \o r.outdir
             /\ IF r.raised
                THEN /\ error' = r.exc
                     /\ pc' = "raised"
                     /\ UNCHANGED <<ret, idx, output_files, csv_files>>
                ELSE IF Outcome(oracle, n) = "write_failed"
                THEN /\ error' = "OSError"
                     /\ pc' = "raised"
                     /\ ret' = Append(ret, r)
                     /\ UNCHANGED <<idx, output_files, csv_files>>
                ELSE /\ csv_files' =
                           Append(csv_files,
                                  write_dict_to_csv(message_dict,
                                                    csv_headers, n))
                     /\ output_files' =
                           Append(output_files,
                                  Descriptor(input_file.display_name,
                                             S_csv, S_csv, n))
                               \o r.attachment_file_paths
                     /\ ret' = Append(ret, r)
                     /\ idx' = idx + 1
                     /\ UNCHANGED <<error, pc>>

\* lines 79-92
CommandMbox ==
    /\ pc = "loop" /\ idx <= Len(input_files)
    /\ Lower(input_files[idx].extension) = S_mbox
    /\ LET n == Len(outdir) + 1
           r == parse_mbox_to_dict_and_extract_attachments(
                    input_files[idx], oracle, n)
       IN  ProcessInput(input_files[idx], n, r, r.metadata)
    /\ UNCHANGED <<unsanitized, sanitized,
                   message, body, file, oracle, input_files>>

\* lines 95-109
CommandEml ==
    /\ pc = "loop" /\ idx <= Len(input_files)
    /\ Lower(input_files[idx].extension) = S_eml
    /\ LET n == Len(outdir) + 1
           r == parse_eml_to_dict_and_extract_attachments(
                    input_files[idx], oracle, n)
       IN  ProcessInput(input_files[idx], n, r, <<r.metadata>>)
    /\ UNCHANGED <<unsanitized, sanitized,
                   message, body, file, oracle, input_files>>

\* lines 111-114
CommandRaiseNoOutput ==
    /\ pc = "loop" /\ idx > Len(input_files)
    /\ output_files = <<>>
    /\ error' = "RuntimeError"
    /\ pc' = "raised"
    /\ UNCHANGED <<unsanitized, sanitized,
                   message, body, file, oracle, ret, input_files, idx,
                   output_files, csv_files, outdir>>

\* lines 116-120
CommandReturn ==
    /\ pc = "loop" /\ idx > Len(input_files)
    /\ output_files # <<>>
    /\ pc' = "returned"
    /\ UNCHANGED <<unsanitized, sanitized,
                   message, body, file, oracle, ret, input_files, idx,
                   output_files, csv_files, outdir, error>>

CommandNext ==
    \/ CommandSkip
    \/ CommandMbox
    \/ CommandEml
    \/ CommandRaiseNoOutput
    \/ CommandReturn

SpecCommand == CommandInit /\ [][CommandNext]_vars

-----------------------------------------------------------------------------
(* Claims on the task `command`                                             *)

Supported(f) == f.extension = S_eml \/ f.extension = S_mbox

\* an input that cannot be parsed: an EML file that cannot be read or whose
\* body cannot be decoded, a mailbox that cannot be opened
Fails(f) ==
    \/ f.extension = S_eml /\ (~f.opens \/ BodyRaises(f.messages[1]))
    \/ f.extension = S_mbox /\ ~f.opens

Finished == pc \in {"returned", "raised"}

\* C6: when every input was unsupported or failed, command fails as a whole
\* with an error instead of returning a task result
C6_NothingParsedRaises ==
    (/\ Finished
     /\ \A i \in 1..Len(input_files) :
           ~Supported(input_files[i]) \/ Fails(input_files[i]))
        => pc = "raised"

\* C7: when at least one input is processed successfully and the others are
\* skipped or fail, in any order, command returns a task result (the output
\* directory itself never failing)
C7_PartialSuccessReturns ==
    (/\ Finished
     /\ oracle.fail = {}
     /\ \E i \in 1..Len(input_files) :
           Supported(input_files[i]) /\ ~Fails(input_files[i]))
        => pc = "returned"

\* the supported inputs the loop has got past, in order
SupportedPast == SelectSeq(SubSeq(input_files, 1, idx - 1), Supported)

IsCsvDescriptor(d) ==
    d.path \in 1..Len(outdir) /\ outdir[d.path].part_no = 0

MessageIdColumn == CHOOSE i \in 1..Len(csv_headers) : csv_headers[i] = "Message-ID"

\* C9: every eml or mbox input that has been processed has exactly one CSV
\* output, holding the header and one row per record the parser returned,
\* in container order; an input with another extension is passed over
\* without error and adds nothing to the output list
C9_OneCsvPerSupportedInput ==
    pc \in {"loop", "returned", "raised"} =>
        /\ Len(csv_files) = Len(SupportedPast)
        /\ Len(SelectSeq(output_files, IsCsvDescriptor)) = Len(SupportedPast)
        /\ \A j \in 1..Len(SupportedPast) :
              LET f == SupportedPast[j]
                  records == IF f.extension = S_eml THEN <<ret[j].metadata>>
                             ELSE ret[j].metadata
                  d == SelectSeq(output_files, IsCsvDescriptor)[j]
              IN  /\ csv_files[j].header = csv_headers
                  /\ Len(csv_files[j].rows) = Len(records)
                  /\ \A i \in 1..Len(records) :
                        /\ csv_files[j].rows[i]
                              = CsvRow(csv_headers, records[i])
                        /\ csv_files[j].rows[i][MessageIdColumn]
                              = GetOr(f.messages[i].message_id, <<>>)
                  /\ d.path = csv_files[j].path
                  /\ d.display_name = f.display_name
                  /\ d.extension = S_csv
        /\ (pc = "raised" /\ idx <= Len(input_files)) =>
              Supported(input_files[idx])
        /\ Len(output_files)
              = Len(SupportedPast)
                + Len(SelectSeq(output_files, LAMBDA d : ~IsCsvDescriptor(d)))
        /\ \A k \in 1..Len(output_files) :
              ~IsCsvDescriptor(output_files[k]) =>
                  \E j \in 1..Len(SupportedPast) :
                      InList(output_files[k], ret[j].attachment_file_paths)

\* a text file is passed over, then a mailbox of two messages gives one CSV
\* of two rows and an EML file one CSV of one row
C9_Witness ==
    /\ pc = "returned"
    /\ Len(input_files) = 3
    /\ ~Supported(input_files[1])
    /\ input_files[2].extension = S_mbox
    /\ Len(input_files[2].messages) = 2
    /\ input_files[3].extension = S_eml
    /\ Len(csv_files) = 2
    /\ Len(csv_files[1].rows) = 2
    /\ Len(csv_files[2].rows) = 1
    /\ csv_files[1].rows[1][MessageIdColumn] = S_id1
    /\ csv_files[1].rows[2][MessageIdColumn] = S_id2

-----------------------------------------------------------------------------
(* SpecSanitize: santitize_filename applied, and applied again to its own   *)
(* result, on every string of NameChars up to MaxNameLen characters         *)

\* characters of the strings handed to santitize_filename
MaxNameLen == 3

\* the nine characters of the class, and three it leaves alone
NameChars == InvalidChars \cup {"a", "_", "."}

SanitizeInit ==
    /\ unsanitized \in SeqsUpTo(NameChars, MaxNameLen)
    /\ sanitized = <<>>
    /\ pc = "sanitize"
    /\ message = Idle /\ body = Idle /\ file = Idle /\ oracle = Idle
    /\ ret = Idle /\ input_files = Idle /\ idx = 0 /\ output_files = Idle
    /\ csv_files = Idle /\ outdir = Idle /\ error = ""

\* the first call is on the string, the second on what the first returned
Sanitize ==
    /\ pc = "sanitize"
    /\ Len(sanitized) < 2
    /\ sanitized' =
          Append(sanitized,
                 santitize_filename(IF sanitized = <<>> THEN unsanitized
                                    ELSE sanitized[Len(sanitized)]))
    /\ UNCHANGED <<unsanitized, message, body, file, oracle, ret,
                   input_files, idx, output_files, csv_files, outdir,
                   error, pc>>

SanitizeNext == Sanitize

SpecSanitize == SanitizeInit /\ [][SanitizeNext]_vars

\* the characters the claim lists
ForbiddenChars == {"<", ">", ":", "\"", "/", "\\", "|", "?", "*"}

\* C11: for every string santitize_filename returns a string of the same
\* length that holds none of < > : " / \ | ? * and differs from the input
\* only where the input had one of them, an underscore standing there; the
\* empty string gives the empty string, and a second application changes
\* nothing
C11_SanitizeReplacesForbiddenOnly ==
    (pc = "sanitize" /\ Len(sanitized) >= 1) =>
        LET out == sanitized[1]
        IN  /\ Len(out) = Len(unsanitized)
            /\ \A i \in 1..Len(out) :
                  /\ out[i] \notin ForbiddenChars
                  /\ out[i] # unsanitized[i] =>
                        unsanitized[i] \in ForbiddenChars /\ out[i] = "_"
            /\ unsanitized = <<>> => out = <<>>
            /\ Len(sanitized) >= 2 => sanitized[2] = out

\* a name with a backslash and an asterisk, sanitized twice
C11_Witness ==
    /\ pc = "sanitize"
    /\ unsanitized = <<"a", "\\", "*">>
    /\ sanitized = << <<"a", "_", "_">>, <<"a", "_", "_">> >>

-----------------------------------------------------------------------------
(* Claims on the number of extractions per message of a mailbox             *)

QualifyingParts(msg) == SelectSeq(Walk(msg.root), Qualifies)

RECURSIVE QualifyingInAll(_)
\* the qualifying leaf parts of all the messages together
QualifyingInAll(messages) ==
    IF messages = <<>> THEN 0
    ELSE Len(QualifyingParts(Head(messages)))
            + QualifyingInAll(Tail(messages))

\* C12: the mailbox parser runs the extractor once per message: with no
\* failure of the output directory the files written for a mailbox are as
\* many as the qualifying leaf parts of its messages, no part being written
\* twice, and the descriptors the last message contributes are as many as
\* its qualifying parts
C12_OneExtractionPerQualifyingPart ==
    (/\ pc = "mbox_done" /\ file.opens /\ NoMessageRaises
     /\ oracle.fail = {} /\ file.messages # <<>>) =>
        /\ Len(outdir) = QualifyingInAll(file.messages)
        /\ Len(ret.attachment_file_paths)
              = Len(QualifyingParts(file.messages[Len(file.messages)]))

-----------------------------------------------------------------------------
(* SpecNames: parse_eml_to_dict_and_extract_attachments on messages with    *)
(* one attachment, under every filename of FilenameChars up to MaxNameLen   *)
(* characters and every Message-ID of IdChoices                             *)

\* a letter, the dot and the path separator
FilenameChars == {"a", ".", "/"}

NamedAttachment(fn) ==
    Container("multipart", "mixed", None, None,
              <<Leaf("text", "plain", None, None, None, <<72>>),
                Leaf("image", "png", Some(fn), Some(S_attachment), None,
                     <<105>>)>>)

NamesFiles ==
    {File(S_eml, <<"f">>, TRUE,
          <<Message("EmailMessage", c[1], Some(<<"s">>), c[2],
                    NamedAttachment(fn))>>) :
        c \in IdChoices, fn \in SeqsUpTo(FilenameChars, MaxNameLen)}

NamesInit ==
    /\ unsanitized = Idle /\ sanitized = Idle
    /\ file \in NamesFiles
    /\ oracle \in Oracles(1)
    /\ ret = Idle
    /\ outdir = <<>>
    /\ pc = "start"
    /\ message = Idle /\ body = Idle /\ input_files = Idle
    /\ idx = 0 /\ output_files = Idle /\ csv_files = Idle /\ error = ""

SpecNames == NamesInit /\ [][EmlNext]_vars

\* the last position of c in s, 0 when s has no c
LastIndexOf(s, c) ==
    LET at == {i \in 1..Len(s) : s[i] = c}
    IN  IF at = {} THEN 0 ELSE CHOOSE i \in at : \A j \in at : j <= i

\* f after its last dot, and f before it, as the claim words them
ExtensionAsClaimed(f) ==
    IF LastIndexOf(f, ".") = 0 THEN <<>>
    ELSE SubSeq(f, LastIndexOf(f, ".") + 1, Len(f))

BaseAsClaimed(f) ==
    IF LastIndexOf(f, ".") = 0 THEN f
    ELSE SubSeq(f, 1, LastIndexOf(f, ".") - 1)

\* the last dot of f starts an extension when it stands after the last '/'
\* and some character other than '.' stands between the two
HasExtension(f) ==
    LET slash == LastIndexOf(f, "/")
        dot == LastIndexOf(f, ".")
    IN  /\ dot > slash
        /\ \E k \in (slash + 1)..(dot - 1) : f[k] # "."

ExtensionOf(f) == IF HasExtension(f) THEN ExtensionAsClaimed(f) ELSE <<>>

BaseOf(f) == IF HasExtension(f) THEN BaseAsClaimed(f) ELSE f

\* the Message-ID header with every forbidden character replaced
SanitizedId(msg) ==
    LET v == IF msg.message_id.none THEN <<>> ELSE msg.message_id.s
    IN  [i \in 1..Len(v) |-> IF v[i] \in ForbiddenChars THEN "_" ELSE v[i]]

\* the filename of the part a request was made for
FilenameOf(request) == TheWalk[request.part_no].filename.s

\* C13 as stated: the extension and data type of every request are the
\* filename after its last dot, the display name is the filename before
\* that dot, a dot and the message identifier, which for an empty
\* Message-ID is unknown_message_ and 8 characters
C13_AsClaimed ==
    (pc = "eml_done" /\ file.opens) =>
        \A i \in 1..Len(outdir) :
            LET f == FilenameOf(outdir[i])
                m == SanitizedId(TheMessage)
                stem == BaseAsClaimed(f) \o <<".">>
            IN  /\ outdir[i].extension = ExtensionAsClaimed(f)
                /\ outdir[i].data_type = ExtensionAsClaimed(f)
                /\ IF m # <<>>
                   THEN outdir[i].display_name = stem \o m
                   ELSE /\ StartsWith(outdir[i].display_name,
                                      stem \o S_unknown_message)
                        /\ Len(outdir[i].display_name)
                              = Len(stem) + Len(S_unknown_message) + 8

\* C13, amended: the extension and data type of every request are the
\* filename after its last dot when that dot stands after the last '/' with
\* a character other than '.' between them, and empty otherwise; the
\* display name is the rest of the filename (all of it when there is no
\* such extension), a dot and the message identifier, which for an empty
\* Message-ID is unknown_message_ and the first 8 digits of the hash, or
\* all its digits when they are fewer; a descriptor returned carries the
\* names of its request
C13_RequestNamesPart ==
    (pc = "eml_done" /\ file.opens) =>
        /\ \A i \in 1..Len(outdir) :
              LET f == FilenameOf(outdir[i])
                  d == TheMessage.digits
                  m == IF SanitizedId(TheMessage) # <<>>
                       THEN SanitizedId(TheMessage)
                       ELSE S_unknown_message
                               \o [k \in 1..(IF Len(d) < 8 THEN Len(d)
                                             ELSE 8) |-> d[k]]
              IN  /\ outdir[i].extension = ExtensionOf(f)
                  /\ outdir[i].data_type = ExtensionOf(f)
                  /\ outdir[i].display_name = BaseOf(f) \o <<".">> \o m
        /\ \A j \in 1..Len(ret.attachment_file_paths) :
              LET x == ret.attachment_file_paths[j]
              IN  /\ x.path \in 1..Len(outdir)
                  /\ x.display_name = outdir[x.path].display_name
                  /\ x.extension = outdir[x.path].extension
                  /\ x.data_type = outdir[x.path].data_type

\* the attachment .a of the message <1@x> is asked for as display name
\* ".a._1@x_" with an empty extension, and its descriptor is returned
C13_Witness ==
    /\ pc = "eml_done" /\ file.opens
    /\ TheMessage.message_id = Some(S_id1)
    /\ Len(outdir) = 1
    /\ FilenameOf(outdir[1]) = <<".", "a">>
    /\ outdir[1].display_name = <<".", "a", ".", "_", "1", "@", "x", "_">>
    /\ outdir[1].extension = <<>>
    /\ outdir[1].data_type = <<>>
    /\ Len(ret.attachment_file_paths) = 1

=============================================================================
